---- MODULE Spec2Model ----
(***************************************************************************)
(* Model of the jobly data-access layer: the partial-update clause builder *)
(* sqlForPartialUpdate and the filter query builders Job.filter and        *)
(* Company.filter, together with the relational store they query.          *)
(*                                                                         *)
(* Text is modelled as sequences of one-character strings, SQL text as the *)
(* sequence of its " AND ..." fragments, and JavaScript values as tagged   *)
(* records [t, n, s] so that values of different types can be compared.    *)
(***************************************************************************)
EXTENDS Integers, Sequences, FiniteSets, TLC

VARIABLES jobs, companies, users, nextId, op, args, result, sent, calls

vars == <<jobs, companies, users, nextId, op, args, result, sent, calls>>

\* the tables and the jobs id sequence
store == <<jobs, companies, users, nextId>>

(***************************************************************************)
(* Bounds of the model.                                                    *)
(***************************************************************************)
MaxKeys == 2
MaxTitleLen == 1
MaxNameLen == 1
MaxSalary == 3
MaxEmployees == 2
MaxDigits == 2

\* salaries of the test data are multiples of 100
SalaryStep == 100

(***************************************************************************)
(* JavaScript values.                                                      *)
(***************************************************************************)
Undefined == [t |-> "undefined", n |-> 0, s |-> <<>>]
Num(n) == [t |-> "number", n |-> n, s |-> <<>>]
Str(s) == [t |-> "string", n |-> 0, s |-> s]
Bool(b) == [t |-> "boolean", n |-> IF b THEN 1 ELSE 0, s |-> <<>>]

\* all sequences over S of length lo..hi
SeqsOf(S, lo, hi) == UNION {[1..k -> S] : k \in lo..hi}

DigitChars == {"1", "9"}

DigitVal(c) ==
  CASE c = "0" -> 0 [] c = "1" -> 1 [] c = "2" -> 2 [] c = "3" -> 3
    [] c = "4" -> 4 [] c = "5" -> 5 [] c = "6" -> 6 [] c = "7" -> 7
    [] c = "8" -> 8 [] c = "9" -> 9

\* UTF-16 code unit of a digit character
CharCode(c) == 48 + DigitVal(c)

RECURSIVE Decimal(_)
Decimal(s) ==
  IF s = <<>> THEN 0
  ELSE 10 * Decimal(SubSeq(s, 1, Len(s) - 1)) + DigitVal(s[Len(s)])

\* parseInt(v) for a number or a non-empty string of decimal digits
parseInt(v) == IF v.t = "string" THEN Decimal(v.s) ELSE v.n

\* ToNumber(v); undefined converts to NaN
IsNaN(v) == v.t = "undefined"
ToNumber(v) == IF v.t = "string" THEN Decimal(v.s) ELSE v.n

\* string comparison by code units: a > b
RECURSIVE LexGreater(_, _)
LexGreater(a, b) ==
  IF a = <<>> THEN FALSE
  ELSE IF b = <<>> THEN TRUE
  ELSE IF CharCode(Head(a)) # CharCode(Head(b))
       THEN CharCode(Head(a)) > CharCode(Head(b))
  ELSE LexGreater(Tail(a), Tail(b))

\* the JavaScript relational operator a > b
JsGreater(a, b) ==
  IF a.t = "string" /\ b.t = "string" THEN LexGreater(a.s, b.s)
  ELSE ~IsNaN(a) /\ ~IsNaN(b) /\ ToNumber(a) > ToNumber(b)

\* ToBoolean(v)
Truthy(v) ==
  CASE v.t = "undefined" -> FALSE
    [] v.t = "number" -> v.n # 0
    [] v.t = "string" -> v.s # <<>>
    [] v.t = "boolean" -> v.n = 1

(***************************************************************************)
(* Outcomes of a call.                                                     *)
(***************************************************************************)
Throw(e, m) ==
  [kind |-> "throw", error |-> e, message |-> m,
   cols |-> <<>>, setCols |-> "", values |-> <<>>, rows |-> {}]
ReturnClause(c, t, v) ==
  [kind |-> "return", error |-> "", message |-> "",
   cols |-> c, setCols |-> t, values |-> v, rows |-> {}]
ReturnRows(r) ==
  [kind |-> "return", error |-> "", message |-> "",
   cols |-> <<>>, setCols |-> "", values |-> <<>>, rows |-> r]

(***************************************************************************)
(* sqlForPartialUpdate(dataToUpdate, jsToSql).                             *)
(*                                                                         *)
(* dataToUpdate is the payload in its property enumeration order, a        *)
(* sequence of [key, value]; jsToSql is [given, own]: whether the argument *)
(* was passed, and its own properties.                                     *)
(***************************************************************************)
PayloadKeys == {"firstName", "age", "constructor"}
PayloadValues == {"Aliya", "32"}
ColumnNames == {"first_name"}

\* properties every plain object inherits from Object.prototype
ObjectPrototypeKeys == {"constructor", "toString", "valueOf", "hasOwnProperty"}
\* what a template literal prints for an inherited function value
InheritedText(key) ==
  IF key = "constructor" THEN "function Object() { [native code] }"
  ELSE "function " \o key \o "() { [native code] }"

ObjectKeys(dataToUpdate) == [i \in 1..Len(dataToUpdate) |-> dataToUpdate[i].key]
ObjectValues(dataToUpdate) == [i \in 1..Len(dataToUpdate) |-> dataToUpdate[i].value]

\* jsToSql[colName]: an own property, else one found on the prototype chain
GetProperty(jsToSql, colName) ==
  IF colName \in DOMAIN jsToSql.own
  THEN [t |-> "string", text |-> jsToSql.own[colName]]
  ELSE IF colName \in ObjectPrototypeKeys
  THEN [t |-> "function", text |-> InheritedText(colName)]
  ELSE [t |-> "undefined", text |-> "undefined"]

\* jsToSql[colName] || colName, as printed by the template literal
ColumnFor(jsToSql, colName) ==
  LET p == GetProperty(jsToSql, colName)
  IN IF p.t = "undefined" \/ (p.t = "string" /\ p.text = "") THEN colName
     ELSE p.text

\* the mapped element `"${jsToSql[colName] || colName}"=$${idx + 1}`, idx from 0
ColFragment_ZeroBased(jsToSql, colName, idx) ==
  [column |-> ColumnFor(jsToSql, colName), placeholder |-> idx]
ColFragment(jsToSql, colName, idx) ==
  [column |-> ColumnFor(jsToSql, colName), placeholder |-> idx + 1]

FragmentText(f) == "\"" \o f.column \o "\"=$" \o ToString(f.placeholder)

\* cols.join(sep)
RECURSIVE Join(_, _)
Join(cols, sep) ==
  IF cols = <<>> THEN ""
  ELSE IF Len(cols) = 1 THEN FragmentText(cols[1])
  ELSE FragmentText(cols[1]) \o sep \o Join(Tail(cols), sep)

\* the body of sqlForPartialUpdate after the empty-payload check
BuildClause(dataToUpdate, jsToSql) ==
  LET keys == ObjectKeys(dataToUpdate)
  IN IF ~jsToSql.given
     THEN Throw("TypeError", "Cannot read properties of undefined")
     ELSE LET cols == [i \in 1..Len(keys) |-> ColFragment(jsToSql, keys[i], i - 1)]
          IN ReturnClause(cols, Join(cols, ", "), ObjectValues(dataToUpdate))

sqlForPartialUpdate_NoCheck(dataToUpdate, jsToSql) ==
  IF Len(ObjectKeys(dataToUpdate)) = 0
  THEN ReturnClause(<<>>, "", <<>>)
  ELSE BuildClause(dataToUpdate, jsToSql)
sqlForPartialUpdate(dataToUpdate, jsToSql) ==
  IF Len(ObjectKeys(dataToUpdate)) = 0
  THEN Throw("BadRequestError", "No data")
  ELSE BuildClause(dataToUpdate, jsToSql)

\* payloads: up to MaxKeys distinct keys, in enumeration order
Payloads ==
  {p \in SeqsOf([key : PayloadKeys, value : PayloadValues], 0, MaxKeys) :
     \A i, j \in 1..Len(p) : i # j => p[i].key # p[j].key}

\* translation tables: any mapping of some keys to column names, or omitted
NoTable == [given |-> FALSE, own |-> <<>>]
Tables ==
  {[given |-> TRUE, own |-> f] :
     f \in UNION {[K -> ColumnNames] : K \in SUBSET PayloadKeys}}

(***************************************************************************)
(* The store. equity is held in tenths (0.1 is 1).                         *)
(***************************************************************************)
JobUniverse ==
  { [id |-> 1, title |-> <<"j", "1">>, salary |-> SalaryStep, equity |-> 1,
     companyHandle |-> "c1"],
    [id |-> 2, title |-> <<"J", "2">>, salary |-> 3 * SalaryStep, equity |-> 0,
     companyHandle |-> "c2"] }

CompanyUniverse ==
  { [handle |-> "c1", name |-> <<"C", "1">>, numEmployees |-> 1],
    [handle |-> "c2", name |-> <<"c", "2">>, numEmployees |-> 2] }

UserUniverse ==
  { [username |-> "u1", firstName |-> "U1F", isAdmin |-> FALSE],
    [username |-> "u2", firstName |-> "U2F", isAdmin |-> FALSE],
    [username |-> "admin", firstName |-> "AF", isAdmin |-> TRUE] }

\* the Job.create calls in flight: where each one is, what it was given and
\* what it settled with
MaxCalls == 2
Callers == 1..MaxCalls
IdleCall ==
  [pc |-> "idle",
   data |-> [title |-> <<>>, salary |-> 0, equity |-> 0, companyHandle |-> ""],
   result |-> ReturnRows({})]

Init ==
  /\ calls = [c \in Callers |-> IdleCall]
  /\ jobs \in SUBSET JobUniverse
  /\ companies \in SUBSET CompanyUniverse
  /\ users = UserUniverse
  /\ nextId = Cardinality(JobUniverse) + 1
  /\ op = "none"
  /\ args = <<>>
  /\ result = ReturnRows({})
  /\ sent = <<>>

(***************************************************************************)
(* The queries of the filters, as the store evaluates them.                *)
(*                                                                         *)
(* A query text is the sequence of the " AND ..." fragments appended to    *)
(* "SELECT ... WHERE 1=1": [col, cmp, ph] compares column col with the     *)
(* bound value of placeholder $ph, or with the literal 0 when ph = 0.      *)
(***************************************************************************)
Fragment(col, cmp, ph) == [col |-> col, cmp |-> cmp, ph |-> ph]

Lower(c) == CASE c = "J" -> "j" [] c = "C" -> "c" [] OTHER -> c
LowerAll(s) == [i \in 1..Len(s) |-> Lower(s[i])]

\* text LIKE pattern: % matches any run of characters, _ any one character
RECURSIVE Like(_, _)
Like(pattern, text) ==
  IF pattern = <<>> THEN text = <<>>
  ELSE IF Head(pattern) = "%"
       THEN Like(Tail(pattern), text) \/ (text # <<>> /\ Like(pattern, Tail(text)))
  ELSE /\ text # <<>>
       /\ (Head(pattern) = "_" \/ Head(pattern) = Head(text))
       /\ Like(Tail(pattern), Tail(text))

\* text ILIKE pattern
ILike(pattern, text) == Like(LowerAll(pattern), LowerAll(text))

\* the placeholders $n a query text mentions
Placeholders(text) == {text[i].ph : i \in 1..Len(text)} \ {0}

\* a row's column, by its SQL name
Column(row, col) ==
  CASE col = "title" -> row.title
    [] col = "salary" -> row.salary
    [] col = "equity" -> row.equity
    [] col = "name" -> row.name
    [] col = "num_employees" -> row.numEmployees

\* one fragment of the WHERE clause on one row
Satisfies(row, f, values) ==
  CASE f.cmp = "ILIKE" -> ILike(values[f.ph].s, Column(row, f.col))
    [] f.cmp = ">=" -> Column(row, f.col) >= ToNumber(values[f.ph])
    [] f.cmp = "<=" -> Column(row, f.col) <= ToNumber(values[f.ph])
    [] f.cmp = ">" -> Column(row, f.col) > (IF f.ph = 0 THEN 0 ELSE ToNumber(values[f.ph]))

\* db.query(text, values) on a table: the store rejects a statement whose
\* bound values are not exactly its placeholders $1..$n
dbQuery(table, text, values) ==
  IF Placeholders(text) # 1..Len(values)
  THEN [ok |-> FALSE, rows |-> {}]
  ELSE [ok |-> TRUE,
        rows |-> {row \in table :
                    \A i \in 1..Len(text) : Satisfies(row, text[i], values)}]

Sent(text, values, response) ==
  [text |-> text, values |-> values, response |-> response]

Outcome(r, s) == [result |-> r, sent |-> s]

(***************************************************************************)
(* Job.filter({ title, minSalary, hasEquity }).                            *)
(***************************************************************************)
\* query and queryValues after the three criteria
JobQuery(title, minSalary, hasEquity) ==
  LET q1 == IF title # Undefined
            THEN [text |-> <<Fragment("title", "ILIKE", 1)>>,
                  values |-> <<Str(<<"%">> \o title.s \o <<"%">>)>>]
            ELSE [text |-> <<>>, values |-> <<>>]
      q2 == IF minSalary # Undefined
            THEN [text |-> Append(q1.text, Fragment("salary", ">=", Len(q1.values) + 1)),
                  values |-> Append(q1.values, minSalary)]
            ELSE q1
      q3 == IF hasEquity = Bool(TRUE)
            THEN [text |-> Append(q2.text, Fragment("equity", ">", 0)),
                  values |-> Append(q2.values, hasEquity)]
            ELSE q2
  IN q3

\* the error handling after the query
JobFilterResult_NoEmptyCheck(response, minSalary) ==
  IF ~response.ok THEN Throw("DatabaseError", "bind message supplies the wrong number of parameters")
  ELSE IF JsGreater(minSalary, Undefined)
  THEN Throw("BadRequestError", "No jobs found meeting minimum salary")
  ELSE ReturnRows(response.rows)
JobFilterResult(response, minSalary) ==
  IF ~response.ok THEN Throw("DatabaseError", "bind message supplies the wrong number of parameters")
  ELSE IF Cardinality(response.rows) = 0
  THEN Throw("BadRequestError", "No jobs found")
  \* jobsRes.rows is an array: its property salary is undefined
  ELSE IF JsGreater(minSalary, Undefined)
  THEN Throw("BadRequestError", "No jobs found meeting minimum salary")
  ELSE ReturnRows(response.rows)

JobFilter_RangeCheck(table, filters) ==
  LET q == JobQuery(filters.title, filters.minSalary, filters.hasEquity)
      response == dbQuery(table, q.text, q.values)
  IN IF JsGreater(filters.minSalary, filters.maxSalary)
     THEN Outcome(Throw("BadRequestError", "Min salary cannot be greater than max salary"), <<>>)
     ELSE Outcome(JobFilterResult(response, filters.minSalary),
                  <<Sent(q.text, q.values, response)>>)
\* filters may carry other properties (maxSalary); the destructuring drops them
JobFilter(table, filters) ==
  LET q == JobQuery(filters.title, filters.minSalary, filters.hasEquity)
      response == dbQuery(table, q.text, q.values)
  IN Outcome(JobFilterResult(response, filters.minSalary),
             <<Sent(q.text, q.values, response)>>)

(***************************************************************************)
(* Company.filter({ name, minEmployees, maxEmployees }).                   *)
(***************************************************************************)
CompanyQuery(name, minEmployees, maxEmployees) ==
  LET q1 == IF name # Undefined
            THEN [text |-> <<Fragment("name", "ILIKE", 1)>>,
                  values |-> <<Str(<<"%">> \o name.s \o <<"%">>)>>]
            ELSE [text |-> <<>>, values |-> <<>>]
      q2 == IF minEmployees # Undefined
            THEN [text |-> Append(q1.text,
                                  Fragment("num_employees", ">=", Len(q1.values) + 1)),
                  values |-> Append(q1.values, Num(parseInt(minEmployees)))]
            ELSE q1
      q3 == IF maxEmployees # Undefined
            THEN [text |-> Append(q2.text,
                                  Fragment("num_employees", "<=", Len(q2.values) + 1)),
                  values |-> Append(q2.values, Num(parseInt(maxEmployees)))]
            ELSE q2
  IN q3

\* the error handling after the query
CompanyFilterResult(response, name, minEmployees, maxEmployees) ==
  IF ~response.ok THEN Throw("DatabaseError", "bind message supplies the wrong number of parameters")
  ELSE IF Cardinality(response.rows) = 0 /\ JsGreater(minEmployees, maxEmployees)
  THEN Throw("BadRequestError", "Min employees cannot be greater than max employees")
  ELSE IF Cardinality(response.rows) = 0 /\ Truthy(minEmployees)
  THEN Throw("NotFoundError", "No companies found with less than ${minEmployees} employees")
  ELSE IF Cardinality(response.rows) = 0 /\ Truthy(name)
  THEN Throw("NotFoundError", "No companies found with name: ${name}")
  ELSE ReturnRows(response.rows)

CompanyFilter(table, filters) ==
  LET name == filters.name
      minEmployees == filters.minEmployees
      maxEmployees == filters.maxEmployees
      q == CompanyQuery(name, minEmployees, maxEmployees)
      response == dbQuery(table, q.text, q.values)
  IN IF /\ minEmployees # Undefined
        /\ maxEmployees # Undefined
        /\ JsGreater(minEmployees, maxEmployees)
     THEN Outcome(Throw("BadRequestError",
                        "Min employees cannot be greater than max employees"), <<>>)
     ELSE Outcome(CompanyFilterResult(response, name, minEmployees, maxEmployees),
                  <<Sent(q.text, q.values, response)>>)

(***************************************************************************)
(* Inputs of the filters.                                                  *)
(***************************************************************************)
TitleChars == {"J", "1", "_"}
NameChars == {"c", "1"}

Titles == {Undefined} \cup {Str(s) : s \in SeqsOf(TitleChars, 0, MaxTitleLen)}
Salaries == {Undefined} \cup {Num(i * SalaryStep) : i \in 0..MaxSalary}
\* a property of the filters that Job.filter does not read
UpperSalaries == {Undefined, Num(SalaryStep)}
EquityFlags == {Undefined, Bool(TRUE), Bool(FALSE), Str(<<"t", "r", "u", "e">>)}
Names == {Undefined} \cup {Str(s) : s \in SeqsOf(NameChars, 0, MaxNameLen)}
EmployeeBounds ==
  {Undefined} \cup {Num(i) : i \in 0..MaxEmployees}
              \cup {Str(s) : s \in SeqsOf(DigitChars, 1, MaxDigits)}

(***************************************************************************)
(* Operations: a caller invokes one operation and takes its outcome.       *)
(***************************************************************************)
CallSqlForPartialUpdate ==
  \E dataToUpdate \in Payloads, jsToSql \in Tables \cup {NoTable} :
    /\ op = "none"
    /\ op' = "sqlForPartialUpdate"
    /\ args' = [dataToUpdate |-> dataToUpdate, jsToSql |-> jsToSql]
    /\ result' = sqlForPartialUpdate(dataToUpdate, jsToSql)
    /\ sent' = <<>>
    /\ UNCHANGED <<store, calls>>

CallJobFilter ==
  \E title \in Titles, minSalary \in Salaries, maxSalary \in UpperSalaries,
     hasEquity \in EquityFlags :
    LET filters == [title |-> title, minSalary |-> minSalary,
                    maxSalary |-> maxSalary, hasEquity |-> hasEquity]
        out == JobFilter(jobs, filters)
    IN /\ op = "none"
       /\ op' = "Job.filter"
       /\ args' = filters
       /\ result' = out.result
       /\ sent' = out.sent
       /\ UNCHANGED <<store, calls>>

CallCompanyFilter ==
  \E name \in Names, minEmployees \in EmployeeBounds, maxEmployees \in EmployeeBounds :
    LET filters == [name |-> name, minEmployees |-> minEmployees,
                    maxEmployees |-> maxEmployees]
        out == CompanyFilter(companies, filters)
    IN /\ op = "none"
       /\ op' = "Company.filter"
       /\ args' = filters
       /\ result' = out.result
       /\ sent' = out.sent
       /\ UNCHANGED <<store, calls>>

(***************************************************************************)
(* The routes. A response is [status, error, message, rows, deleted].      *)
(***************************************************************************)
\* the status the error handler gives an error
StatusOf(error) ==
  CASE error = "BadRequestError" -> 400
    [] error = "UnauthorizedError" -> 401
    [] error = "NotFoundError" -> 404
    [] OTHER -> 500

\* return res.json(body), return res.status(code).json(body)
Json(code, rows, deleted) ==
  [status |-> code, error |-> "", message |-> "", rows |-> rows, deleted |-> deleted]
\* return next(err)
NextErr(error, message) ==
  [status |-> StatusOf(error), error |-> error, message |-> message,
   rows |-> {}, deleted |-> {}]

\* router.get("/"): req.query is always an object, so Job.filter always runs
GetJobsResponse(table, query) ==
  LET out == JobFilter(table, query)
  IN [response |-> IF out.result.kind = "return"
                   THEN Json(200, out.result.rows, {})
                   ELSE NextErr(out.result.error, out.result.message),
      sent |-> out.sent]

\* search filters as a query string carries them: absent, or strings
QueryTitles == {Undefined} \cup {Str(s) : s \in SeqsOf(TitleChars, 1, MaxTitleLen)}
QuerySalaries == {Undefined, Str(<<"1", "0", "0">>), Str(<<"3", "0", "0">>)}
QueryFlags == {Undefined, Str(<<"t", "r", "u", "e">>), Str(<<"f", "a", "l", "s", "e">>)}

GetJobs ==
  \E title \in QueryTitles, minSalary \in QuerySalaries, hasEquity \in QueryFlags :
    LET query == [title |-> title, minSalary |-> minSalary,
                  maxSalary |-> Undefined, hasEquity |-> hasEquity]
        out == GetJobsResponse(jobs, query)
    IN /\ op = "none"
       /\ op' = "GET /jobs"
       /\ args' = query
       /\ result' = out.response
       /\ sent' = out.sent
       /\ UNCHANGED <<store, calls>>

\* the caller has taken the outcome; the next call can start
Respond ==
  /\ op # "none"
  /\ op' = "none"
  /\ args' = <<>>
  /\ result' = ReturnRows({})
  /\ sent' = <<>>
  /\ UNCHANGED <<store, calls>>

Next ==
  \/ CallSqlForPartialUpdate
  \/ CallJobFilter
  \/ CallCompanyFilter
  \/ GetJobs
  \/ Respond

Spec == Init /\ [][Next]_vars

(***************************************************************************)
(* Job.create, Job.get, Job.update and Job.remove. Each gives its outcome  *)
(* and the jobs table and id sequence it leaves.                           *)
(***************************************************************************)
MaxJobId == 3

Effect(r, table, seq) == [result |-> r, jobs |-> table, nextId |-> seq]

\* INSERT INTO jobs ... RETURNING: the id comes from jobs_id_seq
InsertJob(seq, data) ==
  [id |-> seq, title |-> data.title, salary |-> data.salary,
   equity |-> data.equity, companyHandle |-> data.companyHandle]

JobCreate_NoCompanyCheck(table, companyTable, seq, data) ==
  IF \E j \in table : j.title = data.title
  THEN Effect(Throw("BadRequestError", "Duplicate job: ${title}"), table, seq)
  ELSE Effect(ReturnRows({InsertJob(seq, data)}),
              table \cup {InsertJob(seq, data)}, seq + 1)
JobCreate(table, companyTable, seq, data) ==
  IF \E j \in table : j.title = data.title
  THEN Effect(Throw("BadRequestError", "Duplicate job: ${title}"), table, seq)
  ELSE IF ~\E c \in companyTable : c.handle = data.companyHandle
  THEN Effect(Throw("BadRequestError", "Company does not exist: ${companyHandle}"),
              table, seq)
  ELSE Effect(ReturnRows({InsertJob(seq, data)}),
              table \cup {InsertJob(seq, data)}, seq + 1)

\* the job with its company in place of companyHandle
JobWithCompany(job, companyTable) ==
  [id |-> job.id, title |-> job.title, salary |-> job.salary, equity |-> job.equity,
   company |-> {c \in companyTable : c.handle = job.companyHandle}]

JobGet(table, companyTable, seq, id) ==
  IF ~\E j \in table : j.id = id
  THEN Effect(Throw("NotFoundError", "No job: ${id}"), table, seq)
  ELSE Effect(ReturnRows({JobWithCompany(j, companyTable) : j \in {k \in table : k.id = id}}),
              table, seq)

\* the translation table Job.update passes
JobJsToSql == [given |-> TRUE, own |-> [k \in {"companyHandle"} |-> "company_handle"]]
JobColumns == {"title", "salary", "equity", "company_handle"}

\* SET col = value on one row, fragment by fragment
RECURSIVE SetColumns(_, _, _)
SetColumns(row, cols, values) ==
  IF cols = <<>> THEN row
  ELSE LET c == cols[1].column
           v == values[cols[1].placeholder]
           next == CASE c = "title" -> [row EXCEPT !.title = v.s]
                     [] c = "salary" -> [row EXCEPT !.salary = ToNumber(v)]
                     [] c = "equity" -> [row EXCEPT !.equity = ToNumber(v)]
                     [] c = "company_handle" -> [row EXCEPT !.companyHandle = v.s]
       IN SetColumns(next, Tail(cols), values)

JobUpdate(table, companyTable, seq, id, data) ==
  LET clause == sqlForPartialUpdate(data, JobJsToSql)
  IN IF clause.kind = "throw" THEN Effect(clause, table, seq)
     ELSE IF \E i \in 1..Len(clause.cols) : clause.cols[i].column \notin JobColumns
     THEN Effect(Throw("DatabaseError", "column does not exist"), table, seq)
     ELSE IF ~\E j \in table : j.id = id
     THEN Effect(Throw("NotFoundError", "No job: ${id}"), table, seq)
     ELSE LET old == CHOOSE j \in table : j.id = id
              new == SetColumns(old, clause.cols, clause.values)
          IN Effect(ReturnRows({new}), (table \ {old}) \cup {new}, seq)

JobRemove_NoCheck(table, companyTable, seq, id) ==
  Effect(ReturnRows({}), {j \in table : j.id # id}, seq)
JobRemove(table, companyTable, seq, id) ==
  IF ~\E j \in table : j.id = id
  THEN Effect(Throw("NotFoundError", "No job: ${id}"), table, seq)
  ELSE Effect(ReturnRows({}), {j \in table : j.id # id}, seq)

\* inputs
NewJobs ==
  [title : {<<"j", "1">>, <<"j", "3">>}, salary : {2 * SalaryStep}, equity : {0},
   companyHandle : {"c1", "c9"}]
JobIds == 0..MaxJobId
JobUpdates ==
  { <<>>,
    <<[key |-> "title", value |-> Str(<<"j", "3">>)]>>,
    <<[key |-> "salary", value |-> Num(2 * SalaryStep)]>>,
    <<[key |-> "salary", value |-> Num(2 * SalaryStep)],
      [key |-> "title", value |-> Str(<<"j", "3">>)]>> }

CallJobCreate ==
  \E data \in NewJobs :
    LET e == JobCreate(jobs, companies, nextId, data)
    IN /\ op = "none"
       /\ nextId <= MaxJobId
       /\ op' = "Job.create"
       /\ args' = data
       /\ result' = e.result
       /\ jobs' = e.jobs
       /\ nextId' = e.nextId
       /\ sent' = <<>>
       /\ UNCHANGED <<companies, users, calls>>

CallJobGet ==
  \E id \in JobIds :
    LET e == JobGet(jobs, companies, nextId, id)
    IN /\ op = "none"
       /\ op' = "Job.get"
       /\ args' = [id |-> id, data |-> <<>>]
       /\ result' = e.result
       /\ jobs' = e.jobs
       /\ nextId' = e.nextId
       /\ sent' = <<>>
       /\ UNCHANGED <<companies, users, calls>>

CallJobUpdate ==
  \E id \in JobIds, data \in JobUpdates :
    LET e == JobUpdate(jobs, companies, nextId, id, data)
    IN /\ op = "none"
       /\ op' = "Job.update"
       /\ args' = [id |-> id, data |-> data]
       /\ result' = e.result
       /\ jobs' = e.jobs
       /\ nextId' = e.nextId
       /\ sent' = <<>>
       /\ UNCHANGED <<companies, users, calls>>

CallJobRemove ==
  \E id \in JobIds :
    LET e == JobRemove(jobs, companies, nextId, id)
    IN /\ op = "none"
       /\ op' = "Job.remove"
       /\ args' = [id |-> id, data |-> <<>>]
       /\ result' = e.result
       /\ jobs' = e.jobs
       /\ nextId' = e.nextId
       /\ sent' = <<>>
       /\ UNCHANGED <<companies, users, calls>>

(***************************************************************************)
(* The routes that write: POST /jobs, PATCH /jobs/:id, DELETE /jobs/:id,   *)
(* PATCH /users/:username and DELETE /users/:username. A request carries   *)
(* res.locals.user, the payload of its token.                              *)
(***************************************************************************)
Anonymous == [logged |-> FALSE, username |-> "", isAdmin |-> FALSE]
Requesters ==
  {Anonymous}
    \cup {[logged |-> TRUE, username |-> u.username, isAdmin |-> u.isAdmin] : u \in UserUniverse}

\* a middleware either calls next() or next(err)
Pass == [pass |-> TRUE, response |-> Json(200, {}, {})]
Reject(error, message) == [pass |-> FALSE, response |-> NextErr(error, message)]

\* middleware/auth: an anonymous request ends in a server error, an admin
\* passes, and a logged-in non-admin is answered 400 here or by the handler
ensureAdmin(user) ==
  IF ~user.logged THEN {Reject("Error", "")}
  ELSE IF user.isAdmin THEN {Pass}
  ELSE {Pass, Reject("BadRequestError", "")}

ensureLoggedIn(user) ==
  IF user.logged THEN {Pass} ELSE {Reject("UnauthorizedError", "Unauthorized")}

RouteEffect(response, table, seq) == [response |-> response, jobs |-> table, nextId |-> seq]

\* res.status(code).json(...) of what the model returned, next(err) of what it threw
Answer(e, code, deleted) ==
  RouteEffect(IF e.result.kind = "return" THEN Json(code, e.result.rows, deleted)
              ELSE NextErr(e.result.error, e.result.message),
              e.jobs, e.nextId)

\* jobNew schema: a body without companyHandle (written "") is invalid
ValidJobNew(body) == body.companyHandle # ""

PostJobsHandler(user, body, table, companyTable, seq) ==
  IF ~ValidJobNew(body)
  THEN RouteEffect(NextErr("BadRequestError", "errs"), table, seq)
  ELSE IF ~user.isAdmin
  THEN RouteEffect(NextErr("BadRequestError", "Only admins can create jobs"), table, seq)
  ELSE Answer(JobCreate(table, companyTable, seq, body), 201, {})

\* jobUpdate schema: title is required and is a string, salary an integer
ValidJobUpdate(body) ==
  /\ \E i \in 1..Len(body) : body[i].key = "title"
  /\ \A i \in 1..Len(body) :
       \/ body[i].key = "title" /\ body[i].value.t = "string"
       \/ body[i].key = "salary" /\ body[i].value.t = "number"

PatchJobHandler_NoAdminCheck(user, id, body, table, companyTable, seq) ==
  IF ~ValidJobUpdate(body)
  THEN RouteEffect(NextErr("BadRequestError", "errs"), table, seq)
  ELSE Answer(JobUpdate(table, companyTable, seq, id, body), 200, {})
PatchJobHandler(user, id, body, table, companyTable, seq) ==
  IF ~ValidJobUpdate(body)
  THEN RouteEffect(NextErr("BadRequestError", "errs"), table, seq)
  ELSE IF ~user.isAdmin
  THEN RouteEffect(NextErr("BadRequestError", "Only admins can update jobs"), table, seq)
  ELSE Answer(JobUpdate(table, companyTable, seq, id, body), 200, {})

\* the static methods class Job defines
JobMethods == {"create", "findAll", "get", "update", "remove", "filter"}

\* the handler calls Job.delete
DeleteJobHandler(user, id, table, companyTable, seq) ==
  IF ~user.isAdmin
  THEN RouteEffect(NextErr("BadRequestError", "Only admins can delete jobs"), table, seq)
  ELSE IF "delete" \notin JobMethods
  THEN RouteEffect(NextErr("TypeError", "Job.delete is not a function"), table, seq)
  ELSE Answer(JobRemove(table, companyTable, seq, id), 200, {id})

\* models/user: User.update and User.remove
UserEffect(r, table) == [result |-> r, users |-> table]

UserUpdate(table, username, data) ==
  IF ~\E u \in table : u.username = username
  THEN UserEffect(Throw("NotFoundError", "No user: ${username}"), table)
  ELSE LET old == CHOOSE u \in table : u.username = username
           new == [old EXCEPT !.firstName = data.firstName]
       IN UserEffect(ReturnRows({new}), (table \ {old}) \cup {new})

UserRemove(table, username) ==
  IF ~\E u \in table : u.username = username
  THEN UserEffect(Throw("NotFoundError", "No user: ${username}"), table)
  ELSE UserEffect(ReturnRows({}), {u \in table : u.username # username})

UserAnswer(e, deleted) ==
  [response |-> IF e.result.kind = "return" THEN Json(200, e.result.rows, deleted)
                ELSE NextErr(e.result.error, e.result.message),
   users |-> e.users]

\* userUpdate schema: firstName is a non-empty string
ValidUserUpdate(body) == body.firstName # ""

PatchUserHandler(user, username, body, table) ==
  IF ~ValidUserUpdate(body)
  THEN [response |-> NextErr("BadRequestError", "errs"), users |-> table]
  ELSE LET e == UserUpdate(table, username, body)
       IN IF e.result.kind = "throw" THEN UserAnswer(e, {})
          ELSE IF (\A u \in e.result.rows : u.username = user.username) \/ user.isAdmin
          THEN UserAnswer(e, {})
          ELSE [response |-> NextErr("BadRequestError", "Unauthorized access"),
                users |-> e.users]

\* an express response object has no property named user
ResUser == Undefined

DeleteUserHandler(user, username, table) ==
  IF ~Truthy(ResUser) \/ ~user.isAdmin
  THEN UserAnswer(UserRemove(table, username), {username})
  ELSE [response |-> NextErr("BadRequestError", "Unauthorized access"), users |-> table]

\* inputs
NewJobBodies ==
  NewJobs \cup {[title |-> <<"j", "3">>, salary |-> SalaryStep, equity |-> 0,
                 companyHandle |-> ""]}
Usernames == {"u1", "u2"}
UserUpdates == {[firstName |-> "New"], [firstName |-> ""]}

PostJobs ==
  \E user \in Requesters, body \in NewJobBodies :
    \E gate \in ensureAdmin(user) :
      LET e == IF gate.pass THEN PostJobsHandler(user, body, jobs, companies, nextId)
               ELSE RouteEffect(gate.response, jobs, nextId)
      IN /\ op = "none"
         /\ nextId <= MaxJobId
         /\ op' = "POST /jobs"
         /\ args' = [user |-> user, body |-> body]
         /\ result' = e.response
         /\ jobs' = e.jobs
         /\ nextId' = e.nextId
         /\ sent' = <<>>
         /\ UNCHANGED <<companies, users, calls>>

PatchJob ==
  \E user \in Requesters, id \in JobIds, body \in JobUpdates :
    \E gate \in ensureAdmin(user) :
      LET e == IF gate.pass THEN PatchJobHandler(user, id, body, jobs, companies, nextId)
               ELSE RouteEffect(gate.response, jobs, nextId)
      IN /\ op = "none"
         /\ op' = "PATCH /jobs/:id"
         /\ args' = [user |-> user, id |-> id, body |-> body]
         /\ result' = e.response
         /\ jobs' = e.jobs
         /\ nextId' = e.nextId
         /\ sent' = <<>>
         /\ UNCHANGED <<companies, users, calls>>

DeleteJob ==
  \E user \in Requesters, id \in JobIds :
    \E gate \in ensureAdmin(user) :
      LET e == IF gate.pass THEN DeleteJobHandler(user, id, jobs, companies, nextId)
               ELSE RouteEffect(gate.response, jobs, nextId)
      IN /\ op = "none"
         /\ op' = "DELETE /jobs/:id"
         /\ args' = [user |-> user, id |-> id]
         /\ result' = e.response
         /\ jobs' = e.jobs
         /\ nextId' = e.nextId
         /\ sent' = <<>>
         /\ UNCHANGED <<companies, users, calls>>

PatchUser ==
  \E user \in Requesters, username \in Usernames, body \in UserUpdates :
    \E gate \in ensureLoggedIn(user) :
      LET e == IF gate.pass THEN PatchUserHandler(user, username, body, users)
               ELSE [response |-> gate.response, users |-> users]
      IN /\ op = "none"
         /\ op' = "PATCH /users/:username"
         /\ args' = [user |-> user, username |-> username, body |-> body]
         /\ result' = e.response
         /\ users' = e.users
         /\ sent' = <<>>
         /\ UNCHANGED <<jobs, companies, nextId, calls>>

DeleteUser ==
  \E user \in Requesters, username \in Usernames :
    \E gate \in ensureLoggedIn(user) :
      LET e == IF gate.pass THEN DeleteUserHandler(user, username, users)
               ELSE [response |-> gate.response, users |-> users]
      IN /\ op = "none"
         /\ op' = "DELETE /users/:username"
         /\ args' = [user |-> user, username |-> username]
         /\ result' = e.response
         /\ users' = e.users
         /\ sent' = <<>>
         /\ UNCHANGED <<jobs, companies, nextId, calls>>

NextStore ==
  \/ CallJobCreate
  \/ CallJobGet
  \/ CallJobUpdate
  \/ CallJobRemove
  \/ PostJobs
  \/ PatchJob
  \/ DeleteJob
  \/ PatchUser
  \/ DeleteUser
  \/ Respond

SpecStore == Init /\ [][NextStore]_vars

(***************************************************************************)
(* Job.create step by step. Each await of Job.create is one step, and the  *)
(* steps of the calls in flight interleave: the three queries of a call    *)
(* are separate statements, run outside any transaction.                   *)
(***************************************************************************)
Await(c, pc) == calls' = [calls EXCEPT ![c].pc = pc]
Settle(c, r) == calls' = [calls EXCEPT ![c].pc = "settled", ![c].result = r]

\* Job.create(data) is called
StartCreate(c) ==
  \E data \in NewJobs :
    /\ calls[c].pc = "idle"
    /\ nextId <= MaxJobId
    /\ calls' = [calls EXCEPT ![c] = [pc |-> "duplicateCheck", data |-> data,
                                      result |-> ReturnRows({})]]
    /\ UNCHANGED <<store, op, args, result, sent>>

\* SELECT title FROM jobs WHERE title = $1; throw if it has a row
DuplicateCheck(c) ==
  /\ calls[c].pc = "duplicateCheck"
  /\ IF \E j \in jobs : j.title = calls[c].data.title
     THEN Settle(c, Throw("BadRequestError", "Duplicate job: ${title}"))
     ELSE Await(c, "companyCheck")
  /\ UNCHANGED <<store, op, args, result, sent>>

\* SELECT handle FROM companies WHERE handle = $1; throw if it has no row
CompanyCheck(c) ==
  /\ calls[c].pc = "companyCheck"
  /\ IF ~\E k \in companies : k.handle = calls[c].data.companyHandle
     THEN Settle(c, Throw("BadRequestError", "Company does not exist: ${companyHandle}"))
     ELSE Await(c, "insert")
  /\ UNCHANGED <<store, op, args, result, sent>>

\* INSERT INTO jobs ... RETURNING; return the row
InsertStep(c) ==
  /\ calls[c].pc = "insert"
  /\ jobs' = jobs \cup {InsertJob(nextId, calls[c].data)}
  /\ nextId' = nextId + 1
  /\ Settle(c, ReturnRows({InsertJob(nextId, calls[c].data)}))
  /\ UNCHANGED <<companies, users, op, args, result, sent>>

\* the caller has taken the outcome
SettleCreate(c) ==
  /\ calls[c].pc = "settled"
  /\ calls' = [calls EXCEPT ![c] = IdleCall]
  /\ UNCHANGED <<store, op, args, result, sent>>

NextCreate ==
  \E c \in Callers :
    \/ StartCreate(c)
    \/ DuplicateCheck(c)
    \/ CompanyCheck(c)
    \/ InsertStep(c)
    \/ SettleCreate(c)

SpecCreate == Init /\ [][NextCreate]_vars

(***************************************************************************)
(* Properties.                                                             *)
(***************************************************************************)
IsUpdateCall == op = "sqlForPartialUpdate"
IsJobFilter == op = "Job.filter"
IsCompanyFilter == op = "Company.filter"

\* C1: sqlForPartialUpdate called with a payload that has no keys fails with
\* BadRequestError "No data" and returns no clause, whatever the translation
\* table (supplied or omitted).
C1_EmptyPayloadFails ==
  (IsUpdateCall /\ Len(args.dataToUpdate) = 0)
    => result = Throw("BadRequestError", "No data")

C1_Witness ==
  /\ IsUpdateCall
  /\ Len(args.dataToUpdate) = 0
  /\ args.jsToSql.given
  /\ DOMAIN args.jsToSql.own # {}
  /\ result.kind = "throw"

C3_ColumnNames ==
  (IsUpdateCall /\ result.kind = "return")
    => \A i \in 1..Len(args.dataToUpdate) :
         LET key == args.dataToUpdate[i].key
             own == args.jsToSql.own
         IN result.cols[i].column = IF key \in DOMAIN own THEN own[key] ELSE key

\* C4: the translation table is optional: when it is omitted, a non-empty
\* payload yields a clause whose column names are the payload keys verbatim,
\* not an error.
C4_TableOptional ==
  (IsUpdateCall /\ ~args.jsToSql.given /\ Len(args.dataToUpdate) > 0)
    => /\ result.kind = "return"
       /\ Len(result.cols) = Len(args.dataToUpdate)
       /\ \A i \in 1..Len(result.cols) :
            result.cols[i].column = args.dataToUpdate[i].key

\* C5: in Job.filter and Company.filter every appended fragment uses the next
\* sequential placeholder and pushes exactly one bound value, so the bound
\* values handed to the store are exactly the placeholders of the query text
\* and placeholder $N binds the Nth value.
C5_ValuesMatchPlaceholders ==
  (IsJobFilter \/ IsCompanyFilter)
    => \A k \in 1..Len(sent) :
         /\ Len(sent[k].values) = Len(sent[k].text)
         /\ \A i \in 1..Len(sent[k].text) : sent[k].text[i].ph = i
         /\ Placeholders(sent[k].text) = 1..Len(sent[k].values)

\* C6: Company.filter called with both bounds, minEmployees numerically
\* greater than maxEmployees (numbers or decimal strings), fails with
\* BadRequestError before any query is sent to the store.
C6_RangeRejectedBeforeQuery ==
  (/\ IsCompanyFilter
   /\ args.minEmployees # Undefined
   /\ args.maxEmployees # Undefined
   /\ parseInt(args.minEmployees) > parseInt(args.maxEmployees))
    => /\ result.kind = "throw"
       /\ result.error = "BadRequestError"
       /\ sent = <<>>

\* C7 as stated: the jobs filter called with {minSalary: 300, maxSalary: 100}
\* fails with a range error before any store access.
C7_JobRangeRejected ==
  (IsJobFilter /\ args.minSalary = Num(300) /\ args.maxSalary = Num(100))
    => /\ result.kind = "throw"
       /\ sent = <<>>

\* C7 as amended: the jobs filter has no upper salary bound; called with
\* {minSalary: 300, maxSalary: 100} it ignores maxSalary, makes no range
\* check, sends the query "salary >= $1" with 300 to the store and returns the
\* jobs whose salary is at least 300, failing with BadRequestError "No jobs
\* found" (after the store access) only when there are none.
C7_JobRangeIgnored ==
  (/\ IsJobFilter
   /\ args.minSalary = Num(300)
   /\ args.maxSalary = Num(100)
   /\ args.title = Undefined
   /\ args.hasEquity = Undefined)
    => /\ Len(sent) = 1
       /\ sent[1].text = <<Fragment("salary", ">=", 1)>>
       /\ sent[1].values = <<Num(300)>>
       /\ LET atLeast == {j \in jobs : j.salary >= 300}
          IN result = IF atLeast = {}
                      THEN Throw("BadRequestError", "No jobs found")
                      ELSE ReturnRows(atLeast)

C7_Witness ==
  /\ IsJobFilter
  /\ args.minSalary = Num(300)
  /\ args.maxSalary = Num(100)
  /\ args.title = Undefined
  /\ args.hasEquity = Undefined
  /\ result.kind = "return"
  /\ \E j \in result.rows : j.salary = 300

\* C8: Job.filter never returns an empty result: whenever the executed query
\* matches zero rows it raises BadRequestError.
C8_NoEmptyResult ==
  IsJobFilter
    => /\ result.kind = "return" => result.rows # {}
       /\ \A k \in 1..Len(sent) :
            (sent[k].response.ok /\ sent[k].response.rows = {})
              => result = Throw("BadRequestError", "No jobs found")

C8_Witness ==
  /\ IsJobFilter
  /\ jobs # {}
  /\ args.minSalary # Undefined
  /\ \A j \in jobs : j.salary < args.minSalary.n
  /\ Len(sent) = 1
  /\ sent[1].response.ok
  /\ sent[1].response.rows = {}
  /\ result.error = "BadRequestError"

\* C9: whenever the query executed by Company.filter returns zero rows,
\* Company.filter raises BadRequestError or NotFoundError instead of
\* returning an empty list, for every combination of criteria.
C9_EmptyResultRaises ==
  IsCompanyFilter
    => \A k \in 1..Len(sent) :
         (sent[k].response.ok /\ sent[k].response.rows = {})
           => /\ result.kind = "throw"
              /\ result.error \in {"BadRequestError", "NotFoundError"}

\* text contains sub, ignoring case
Contains(sub, text) ==
  \E i \in 0..(Len(text) - Len(sub)) :
    SubSeq(LowerAll(text), i + 1, i + Len(sub)) = LowerAll(sub)

\* the stored jobs that satisfy every present criterion
MatchingJobs ==
  {j \in jobs :
     /\ args.title # Undefined => Contains(args.title.s, j.title)
     /\ args.minSalary # Undefined => j.salary >= args.minSalary.n
     /\ args.hasEquity = Bool(TRUE) => j.equity > 0}

\* C10: when at least one stored job satisfies every present criterion
\* (title contains the substring ignoring case, salary >= minSalary,
\* equity > 0 when hasEquity is true), Job.filter returns exactly those jobs.
C10_ReturnsMatchingJobs ==
  (IsJobFilter /\ MatchingJobs # {}) => result = ReturnRows(MatchingJobs)

IsGetJobs == op = "GET /jobs"

\* the query text has an equity condition
HasEquityCondition(text) == \E i \in 1..Len(text) : text[i].col = "equity"

\* C11: GET /jobs with the search filter hasEquity=true returns only jobs
\* whose equity is greater than 0; any other value of hasEquity, or its
\* absence, adds no equity condition.
C11_HasEquityFilters ==
  IsGetJobs
    => /\ args.hasEquity = Str(<<"t", "r", "u", "e">>)
            => \A j \in result.rows : j.equity > 0
       /\ args.hasEquity # Str(<<"t", "r", "u", "e">>)
            => ~HasEquityCondition(sent[1].text)

\* C16: GET /jobs with no search filters succeeds and returns every stored
\* job, for any contents of the jobs table.
C16_NoFiltersReturnsAll ==
  (/\ IsGetJobs
   /\ args.title = Undefined
   /\ args.minSalary = Undefined
   /\ args.hasEquity = Undefined)
    => /\ result.status = 200
       /\ result.rows = jobs

NameMessage == "No companies found with name: ${name}"
MinMessage == "No companies found with less than ${minEmployees} employees"
RangeMessage == "Min employees cannot be greater than max employees"

\* C18: when Company.filter's query returns zero rows and the range is valid,
\* the error is the NotFoundError about minEmployees whenever minEmployees and
\* name are both supplied, and the NotFoundError about name is raised only
\* when minEmployees is not supplied.
C18_ErrorPrecedence ==
  (/\ IsCompanyFilter
   /\ Len(sent) = 1
   /\ sent[1].response.ok
   /\ sent[1].response.rows = {})
    => /\ (/\ args.minEmployees # Undefined
           /\ args.name # Undefined
           /\ (args.maxEmployees # Undefined
                 => parseInt(args.minEmployees) <= parseInt(args.maxEmployees)))
            => result = Throw("NotFoundError", MinMessage)
       /\ result.message = NameMessage => args.minEmployees = Undefined

\* C20: Company.filter never raises "Min employees cannot be greater than max
\* employees" when minEmployees is numerically at most maxEmployees (numbers
\* or decimal strings), nor when either bound is absent.
C20_NoRangeErrorOnValidRange ==
  (/\ IsCompanyFilter
   /\ \/ args.minEmployees = Undefined
      \/ args.maxEmployees = Undefined
      \/ parseInt(args.minEmployees) <= parseInt(args.maxEmployees))
    => result.message # RangeMessage

HasJob(id) == \E j \in jobs : j.id = id

\* C12: Job.create fails with BadRequestError and inserts nothing when a job
\* with the same title already exists or when companyHandle names no existing
\* company; otherwise it inserts exactly one job and returns it with a new id.
C12_CreateInsertsOneOrNone ==
  [][op' = "Job.create"
       => IF \/ \E j \in jobs : j.title = args'.title
             \/ ~\E c \in companies : c.handle = args'.companyHandle
          THEN /\ result'.kind = "throw"
               /\ result'.error = "BadRequestError"
               /\ jobs' = jobs
          ELSE \E j \in jobs' :
                 /\ jobs' = jobs \cup {j}
                 /\ j \notin jobs
                 /\ \A k \in jobs : k.id # j.id
                 /\ j.title = args'.title
                 /\ j.companyHandle = args'.companyHandle
                 /\ result' = ReturnRows({j})]_vars

C12_Witness ==
  /\ op = "Job.create"
  /\ result.kind = "return"
  /\ Cardinality(jobs) > 1
  /\ \E j \in jobs : j.id = MaxJobId /\ j.title = args.title

\* C13 as stated: Job.get, Job.update and Job.remove called with an id that
\* matches no stored job each fail with NotFoundError and leave the jobs
\* table unchanged.
C13_MissingIdNotFound ==
  [][(op' \in {"Job.get", "Job.update", "Job.remove"} /\ ~HasJob(args'.id))
       => /\ result'.kind = "throw"
          /\ result'.error = "NotFoundError"
          /\ jobs' = jobs]_vars

\* C13 as amended: Job.get, Job.remove, and Job.update given at least one
\* field to change, called with an id that matches no stored job fail with
\* NotFoundError; Job.update given no field fails with BadRequestError
\* "No data" whatever the id; in every case the jobs table is unchanged.
C13_MissingIdFails ==
  [][(op' \in {"Job.get", "Job.update", "Job.remove"} /\ ~HasJob(args'.id))
       => /\ result' = IF op' = "Job.update" /\ Len(args'.data) = 0
                       THEN Throw("BadRequestError", "No data")
                       ELSE Throw("NotFoundError", "No job: ${id}")
          /\ jobs' = jobs]_vars

C13_Witness ==
  /\ op = "Job.remove"
  /\ jobs # {}
  /\ ~HasJob(args.id)
  /\ result.error = "NotFoundError"

\* C14: DELETE /jobs/:id sent by an admin for an existing job removes that
\* job from the store and responds with a success body naming the deleted
\* id, not with an error.
C14_AdminDeletesJob ==
  [][(op' = "DELETE /jobs/:id" /\ args'.user.isAdmin /\ HasJob(args'.id))
       => /\ jobs' = {j \in jobs : j.id # args'.id}
          /\ result'.status = 200
          /\ result'.deleted = {args'.id}]_vars

JobWrites == {"POST /jobs", "PATCH /jobs/:id", "DELETE /jobs/:id"}

C17_DeleteSelfOrAdmin ==
  [][(/\ op' = "DELETE /users/:username"
      /\ args'.user.logged
      /\ args'.user.username # args'.username
      /\ ~args'.user.isAdmin)
       => /\ users' = users
          /\ result'.status # 200]_vars

\* C19: PATCH /users/:username issued by a logged-in user who is neither
\* that user nor an admin leaves the stored user record unchanged: whenever
\* the response is the "Unauthorized access" error, no update has been
\* applied.
C19_UnauthorizedPatchNoEffect ==
  [][op' = "PATCH /users/:username"
       => /\ (/\ args'.user.logged
              /\ args'.user.username # args'.username
              /\ ~args'.user.isAdmin) => users' = users
          /\ result'.message = "Unauthorized access" => users' = users]_vars

\* C21: job titles stay unique under interleaving: for two Job.create calls
\* with the same title whose duplicate-check, company-check and insert steps
\* interleave, at most one call inserts a row, so no reachable state of the
\* jobs table holds two jobs with the same title.
C21_TitlesUnique ==
  \A j \in jobs : \A k \in jobs : j.title = k.title => j = k

====
